---- MODULE Spec2Model ----
(***************************************************************************)
(* Model of scr/pdf_invoice_extractor.py: the scan that                    *)
(* extract_transaction_data runs over the text lines of every page of a    *)
(* statement.  Lines are strings; the string methods and the regular       *)
(* expressions of the source are operators over their characters.  The     *)
(* cursor i is 0-based as in the source, so lines[i] is ls[i + 1] here.    *)
(* A string of the module holds the characters up to U+00FF, so the Thai   *)
(* Baht sign (U+0E3F) is written "$".                                      *)
(***************************************************************************)
EXTENDS Integers, Sequences, FiniteSets, TLC

\* ---------------------------------------------------------------- bounds
MaxLines == 3
MaxPages == 2
MaxParts == 4
MaxFiles == 3

\* ------------------------------------------------------------ characters
Baht == "$"
None == ""
Digits == {"0", "1", "2", "3", "4", "5", "6", "7", "8", "9"}
\* the characters str.isdigit() is true of: the digits \d matches and the
\* superscripts U+00B2, U+00B3, U+00B9
DigitChars == Digits \cup {"²", "³", "¹"}
\* the characters str.strip() strips and \s matches that a line can hold:
\* space, \t, \x0b, \f, \r, \x1c..\x1f, U+0085 and U+00A0 (a line of
\* text.split('\n') has no \n)
WhiteSpace ==
    {" ", "\t", "", "\f", "\r", "", "", "", "", "", " "}
\* the characters str.lower() changes, and what it makes of them: A..Z and
\* U+00C0..U+00DE without the multiplication sign U+00D7
UpperCase ==
    "ABCDEFGHIJKLMNOPQRSTUVWXYZ" \o "ÀÁÂÃÄÅÆÇÈÉÊËÌÍÎÏÐÑÒÓÔÕÖØÙÚÛÜÝÞ"
LowerCase ==
    "abcdefghijklmnopqrstuvwxyz" \o "àáâãäåæçèéêëìíîïðñòóôõöøùúûüýþ"
Months == {"Jan", "Feb", "Mar", "Apr", "May", "Jun",
           "Jul", "Aug", "Sep", "Oct", "Nov", "Dec"}
source_file == "statement.pdf"

Char(s, k) == SubSeq(s, k, k)

Min(S) == CHOOSE m \in S : \A n \in S : m <= n

\* --------------------------------------------------------- str methods
RECURSIVE lstrip(_)
lstrip(s) ==
    IF Len(s) > 0 /\ Char(s, 1) \in WhiteSpace THEN lstrip(Tail(s)) ELSE s

RECURSIVE rstrip(_)
rstrip(s) ==
    IF Len(s) > 0 /\ Char(s, Len(s)) \in WhiteSpace
    THEN rstrip(SubSeq(s, 1, Len(s) - 1)) ELSE s

strip(s) == rstrip(lstrip(s))

startswith(s, prefix) ==
    Len(s) >= Len(prefix) /\ SubSeq(s, 1, Len(prefix)) = prefix

\* Python's "sub in s"
contains(s, sub) ==
    \E k \in 1..(Len(s) - Len(sub) + 1) : SubSeq(s, k, k + Len(sub) - 1) = sub

isdigit(s) == Len(s) > 0 /\ \A k \in 1..Len(s) : Char(s, k) \in DigitChars

lower_char(c) ==
    IF \E k \in 1..Len(UpperCase) : Char(UpperCase, k) = c
    THEN Char(LowerCase, CHOOSE k \in 1..Len(UpperCase) : Char(UpperCase, k) = c)
    ELSE c

RECURSIVE lower(_)
lower(s) == IF Len(s) = 0 THEN "" ELSE lower_char(Char(s, 1)) \o lower(Tail(s))

\* mutant: the commas stay in the amount
replace_nothing(s) == s

\* s.replace(',', '')
RECURSIVE replace(_)
replace(s) ==
    IF Len(s) <= 1 THEN (IF s = "," THEN "" ELSE s)
    ELSE LET h == Len(s) \div 2
         IN  replace(SubSeq(s, 1, h)) \o replace(SubSeq(s, h + 1, Len(s)))

\* ------------------------------------------------- regular expressions
\* r'^(Jan|...|Dec)$'
month_pattern(line) == line \in Months

\* r'^\d{1,2}$'
day_pattern(line) ==
    Len(line) \in 1..2 /\ \A k \in 1..Len(line) : Char(line, k) \in Digits

\* r'^(Jan|...|Dec)\s+\d{1,2}$'
date_pattern(line) ==
    /\ Len(line) >= 5
    /\ SubSeq(line, 1, 3) \in Months
    /\ LET rest == SubSeq(line, 4, Len(line))
           day  == lstrip(rest)
       IN  Len(day) < Len(rest) /\ day_pattern(day)

\* first index >= k of s whose character is not in C (Len(s) + 1 if none)
SkipRun(s, k, C) ==
    CHOOSE j \in k..(Len(s) + 1) :
        /\ j > Len(s) \/ Char(s, j) \notin C
        /\ \A t \in k..(j - 1) : Char(s, t) \in C

\* ([\d,]+\.?\d*) matched at index q of s: <<>> if it does not match there,
\* else <<group, index after the match>>
NumberAt(s, q) ==
    LET r == SkipRun(s, q, Digits \cup {","})
        d == IF r <= Len(s) /\ Char(s, r) = "." THEN r + 1 ELSE r
        e == SkipRun(s, d, Digits)
    IN  IF r = q THEN <<>> ELSE <<SubSeq(s, q, e - 1), e>>

\* the pattern with the sign at index p; spaces says whether \s* follows it
AmountAt(s, p, spaces) ==
    IF Char(s, p) # Baht THEN <<>>
    ELSE NumberAt(s, IF spaces THEN SkipRun(s, p + 1, WhiteSpace) ELSE p + 1)

\* re.search(pattern, s): the leftmost match; <<>> is None, <<g>> a match
\* whose group(1) is g
re_search(s, spaces) ==
    LET ps == {p \in 1..Len(s) : AmountAt(s, p, spaces) # <<>>}
    IN  IF ps = {} THEN <<>> ELSE <<AmountAt(s, Min(ps), spaces)[1]>>

\* re.match(r'^([\d,]+\.?\d*)$', s)
re_match_number(s) ==
    LET m == NumberAt(s, 1)
    IN  IF m # <<>> /\ m[2] = Len(s) + 1 THEN <<m[1]>> ELSE <<>>

\* ---------------------------------------------------------------- float
\* float(a) for a token of digits, commas and at most one point raises
\* ValueError exactly when the token has no digit or has a comma
float_raises(a) ==
    \/ ~ \E k \in 1..Len(a) : Char(a, k) \in Digits
    \/ \E k \in 1..Len(a) : Char(a, k) = ","

DigitValue(c) == CHOOSE v \in 0..9 : Char("0123456789", v + 1) = c

DigitChar(v) == Char("0123456789", v + 1)

RECURSIVE int(_)
int(s) ==
    IF Len(s) = 0 THEN 0
    ELSE 10 * int(SubSeq(s, 1, Len(s) - 1)) + DigitValue(Char(s, Len(s)))

\* s without its trailing zeros
StripZeros(s) ==
    LET ks == {k \in 1..Len(s) :
                  /\ Char(s, k) # "0"
                  /\ \A j \in (k + 1)..Len(s) : Char(s, j) = "0"}
    IN  IF ks = {} THEN "" ELSE SubSeq(s, 1, CHOOSE k \in ks : TRUE)

\* s without its leading zeros
StripLeadingZeros(s) == SubSeq(s, SkipRun(s, 1, {"0"}), Len(s))

\* A Python float is an IEEE 754 double, m * 2^e with m < 2^53.  float()
\* takes the double nearest to the decimal, and the value is written here
\* as repr() writes it.  Whole numbers of any length are sequences of
\* decimal digits, the most significant first, without leading zeros.
digits(s) == [k \in 1..Len(s) |-> DigitValue(Char(s, k))]

RECURSIVE text(_)
text(A) ==
    IF Len(A) = 0 THEN ""
    ELSE IF Len(A) = 1 THEN DigitChar(A[1])
    ELSE LET h == Len(A) \div 2
         IN  text(SubSeq(A, 1, h)) \o text(SubSeq(A, h + 1, Len(A)))

zeros(n) == [k \in 1..n |-> 0]

normal(A) ==
    LET ks == {k \in 1..Len(A) : A[k] # 0 /\ \A j \in 1..(k - 1) : A[j] = 0}
    IN  IF ks = {} THEN <<>> ELSE SubSeq(A, CHOOSE k \in ks : TRUE, Len(A))

\* 2 * A and 5 * A: the carry into a place comes from the place to its right
\* alone
times2(A) ==
    normal([k \in 1..(Len(A) + 1) |->
               (IF k > 1 THEN (2 * A[k - 1]) % 10 ELSE 0)
             + (IF k <= Len(A) /\ A[k] >= 5 THEN 1 ELSE 0)])

times5(A) ==
    normal([k \in 1..(Len(A) + 1) |->
               (IF k > 1 THEN 5 * (A[k - 1] % 2) ELSE 0)
             + (IF k <= Len(A) THEN A[k] \div 2 ELSE 0)])

\* A * c^n for c = 2 or c = 5
RECURSIVE times_power(_, _, _)
times_power(A, c, n) ==
    IF n <= 0 THEN A
    ELSE IF n = 1 THEN (IF c = 2 THEN times2(A) ELSE times5(A))
    ELSE LET half == times_power(A, c, n \div 2)
         IN  IF half = <<>> THEN <<>>
             ELSE times_power(half, c, n - n \div 2)

\* A + 1 and A - c for a digit c <= A, for an A of a few digits
RECURSIVE plus_one(_)
plus_one(A) ==
    IF Len(A) = 0 THEN <<1>>
    ELSE IF A[Len(A)] < 9
    THEN SubSeq(A, 1, Len(A) - 1) \o <<A[Len(A)] + 1>>
    ELSE plus_one(SubSeq(A, 1, Len(A) - 1)) \o <<0>>

RECURSIVE minus(_, _)
minus(A, c) ==
    IF c = 0 THEN A
    ELSE IF A[Len(A)] >= c
    THEN SubSeq(A, 1, Len(A) - 1) \o <<A[Len(A)] - c>>
    ELSE minus(SubSeq(A, 1, Len(A) - 1), 1) \o <<A[Len(A)] + 10 - c>>

\* A < B
less(A, B) ==
    \/ Len(A) < Len(B)
    \/ /\ Len(A) = Len(B)
       /\ \E k \in 1..Len(A) :
              A[k] < B[k] /\ \A j \in 1..(k - 1) : A[j] = B[j]

Two52 == digits("4503599627370496")
Two53 == digits("9007199254740992")
MinExp == 0 - 1074
MaxExp == 971
Infinity == [units |-> "inf", decimals |-> ""]
Zero == [units |-> "0", decimals |-> ""]

\* the whole part and the k decimals of A / 10^k
whole_part(A, k) == IF Len(A) > k THEN SubSeq(A, 1, Len(A) - k) ELSE <<>>

fraction(A, k) ==
    IF Len(A) > k THEN SubSeq(A, Len(A) - k + 1, Len(A))
    ELSE zeros(k - Len(A)) \o A

\* x = [A, k, e] stands for A / 10^k * 2^e.  doubled takes as many powers
\* of two as it can, 2^j of them first, out of the exponent and into A
\* while the whole part stays under 2^53 and e above the exponent of the
\* subnormals; halved moves them the other way (a half is 5 / 10) while
\* the whole part stays at or over 2^53.
RECURSIVE doubled(_, _)
doubled(x, j) ==
    LET n == 2 ^ j
        y == [A |-> times_power(x.A, 2, n), k |-> x.k, e |-> x.e - n]
    IN  IF j < 0 THEN x
        ELSE IF y.e >= MinExp /\ less(whole_part(y.A, y.k), Two53)
        THEN doubled(y, j - 1)
        ELSE doubled(x, j - 1)

RECURSIVE halved(_, _)
halved(x, j) ==
    LET n == 2 ^ j
        y == [A |-> times_power(x.A, 5, n), k |-> x.k + n, e |-> x.e + n]
    IN  IF j < 0 THEN x
        ELSE IF ~ less(whole_part(y.A, y.k), Two53)
        THEN halved(y, j - 1)
        ELSE halved(x, j - 1)

\* the least j with 2^(j + 1) > n: no more than n powers are taken if the
\* first step takes 2^j
first_step(n) == Min({j \in 0..10 : 2 ^ (j + 1) > n \/ j = 10})

\* A / 10^k as [A, k, e] with the whole part in 2^52 .. 2^53 - 1, or under
\* 2^52 with e = MinExp.  A number of d whole digits is under 2^(4 * d), one
\* with z zeros after the point is over 2^-(4 * z + 4).
scale(A, k) ==
    LET x == [A |-> A, k |-> k, e |-> 0]
        h == halved(x, first_step(4 * (Len(A) - k)))
    IN  IF less(whole_part(A, k), Two53)
        THEN doubled(x, first_step(IF k > Len(A) THEN 56 + 4 * (k - Len(A))
                                   ELSE 56))
        ELSE [A |-> times5(h.A), k |-> h.k + 1, e |-> h.e + 1]

\* the double nearest to the token a (digits with at most one point), ties
\* to the even m: <<m, e>>, m = <<>> for zero; <<"inf">> on overflow
strtod(a) ==
    LET p == SkipRun(a, 1, Digits)
        W == StripLeadingZeros(SubSeq(a, 1, p - 1))
        F == StripZeros(SubSeq(a, p + 1, Len(a)))
    IN  IF Len(W) > 309 THEN <<"inf">>
        ELSE IF W = "" /\ SkipRun(F, 1, {"0"}) > 325 THEN <<<<>>, MinExp>>
        ELSE
        LET s == scale(normal(digits(W \o F)), Len(F))
            m0 == whole_part(s.A, s.k)
            frac == fraction(s.A, s.k)
            odd == m0 # <<>> /\ m0[Len(m0)] % 2 = 1
            up == /\ frac # <<>>
                  /\ \/ frac[1] > 5
                     \/ /\ frac[1] = 5
                        /\ \/ odd
                           \/ \E k \in 2..Len(frac) : frac[k] # 0
            m == IF up THEN plus_one(m0) ELSE m0
        IN  IF m = Two53
            THEN (IF s.e + 1 > MaxExp THEN <<"inf">> ELSE <<Two52, s.e + 1>>)
            ELSE IF s.e > MaxExp THEN <<"inf">> ELSE <<m, s.e>>

\* the shortest decimal that strtod gives back the double m * 2^e for, the
\* one nearest to it if there are several (repr of a float), as whole units
\* and decimals without trailing zeros.  The double and the ends of its
\* rounding interval are the whole numbers V, LO, HI over 10^s.
dtoa(m, e) ==
    LET s == IF e <= 2 THEN 2 - e ELSE 0
        by(X) == IF e <= 2 THEN times_power(X, 5, s)
                 ELSE times_power(X, 2, e - 2)
        m4 == times2(times2(m))
        V == by(m4)
        LO == by(minus(m4, IF m = Two52 /\ e > MinExp THEN 1 ELSE 2))
        HI == by(plus_one(plus_one(m4)))
        even == m[Len(m)] % 2 = 0
        inside(c) == IF even THEN ~ less(c, LO) /\ ~ less(HI, c)
                     ELSE less(LO, c) /\ less(c, HI)
        L == Len(V)
        floor(n) == SubSeq(V, 1, n) \o zeros(L - n)
        ceil(n) == plus_one(SubSeq(V, 1, n)) \o zeros(L - n)
        ok(n) == n >= L \/ inside(floor(n)) \/ inside(ceil(n))
        n == Min({k \in 1..17 : ok(k)})
        upper == /\ V[n + 1] >= 5
                 /\ \/ V[n + 1] > 5
                    \/ V[n] % 2 = 1
                    \/ \E k \in (n + 2)..L : V[k] # 0
        c == IF n >= L THEN V
             ELSE IF ~ inside(ceil(n)) THEN floor(n)
             ELSE IF ~ inside(floor(n)) THEN ceil(n)
             ELSE IF upper THEN ceil(n) ELSE floor(n)
        units == text(whole_part(c, s))
    IN  [units |-> IF units = "" THEN "0" ELSE units,
         decimals |-> StripZeros(text(fraction(c, s)))]

\* the value of float(a), written as repr writes it: whole units and the
\* decimals without trailing zeros, both strings of digits.  A token of at
\* most 15 digits (DBL_DIG) is the shortest decimal of its own double.
float(a) ==
    LET p == SkipRun(a, 1, Digits)
        W == StripLeadingZeros(SubSeq(a, 1, p - 1))
        F == StripZeros(SubSeq(a, p + 1, Len(a)))
        d == strtod(a)
    IN  IF Len(W) + Len(F) <= 15
        THEN [units |-> IF W = "" THEN "0" ELSE W, decimals |-> F]
        ELSE IF d = <<"inf">> THEN Infinity
        ELSE IF d[1] = <<>> THEN Zero
        ELSE dtoa(d[1], d[2])

\* ------------------------------------------------- description assembly
BoilerWords == {"will appear", "statement", "foreign", "card", "account", "00001"}

\* ' '.join(parts)
RECURSIVE join(_)
join(parts) ==
    IF Len(parts) = 0 THEN ""
    ELSE IF Len(parts) = 1 THEN parts[1]
    ELSE parts[1] \o " " \o join(Tail(parts))

\* mutant: the test for the boilerplate words is missing
is_location_no_words(part) ==
    Len(part) > 0 /\ ~ isdigit(part) /\ Len(part) > 2

\* mutant: the part is tested as it is written, without lower()
is_location_case_sensitive(part) ==
    /\ Len(part) > 0 /\ ~ isdigit(part) /\ Len(part) > 2
    /\ ~ \E x \in BoilerWords : contains(part, x)

\* the two tests a later fragment must pass to be added as location info
is_location(part) ==
    /\ Len(part) > 0 /\ ~ isdigit(part) /\ Len(part) > 2
    /\ ~ \E x \in BoilerWords : contains(lower(part), x)

\* mutant: the loop has no break, the last part that passes is added
RECURSIVE location_index_last(_, _)
location_index_last(parts, k) ==
    IF k > Len(parts) THEN 0
    ELSE LET later == location_index_last(parts, k + 1)
         IN  IF later # 0 THEN later
             ELSE IF is_location(parts[k]) THEN k ELSE 0

\* the loop over description_parts[1:]: the position (from 2) of the part at
\* which the loop breaks, 0 if it runs to the end
RECURSIVE location_index(_, _)
location_index(parts, k) ==
    IF k > Len(parts) THEN 0
    ELSE IF is_location(parts[k]) THEN k
    ELSE location_index(parts, k + 1)

build_description(parts) ==
    IF Len(parts) > 0
    THEN LET k == location_index(parts, 2)
         IN  IF k = 0 THEN parts[1] ELSE parts[1] \o " " \o parts[k]
    ELSE join(parts)

\* ------------------------------------------------------------ the scan
VARIABLES
    pdf_files,          \* main: the files of the directory, sorted by name,
                        \* each with its name and its pages
    file_num,           \* main: the number of the file being processed
    pdf_path,           \* the name of the file being scanned
    doc,                \* the pages of the PDF, each the lines of its text
    page_num,           \* the page being scanned, 0 before the first
    i,                  \* the cursor into the lines of the page (0-based)
    pc,                 \* "scan": outer while, "collect": inner while, "done";
                        \* main: "main", "extended", "parsed", "saved", "exit"
    date_str,           \* the date captured by the outer loop
    description_parts,  \* the fragments collected for date_str
    transactions,       \* the records appended so far
    raised,             \* the except clause has run
    date_at,            \* history: line index of the token date_str came from
    parts_at,           \* history: line index of every collected fragment
    prov,               \* history: for every record, where its fields came from
    captured,           \* history: <<page, line index>> of every date captured
    event,              \* history: the branch the last step took
    all_transactions,   \* main: the records of every file, in place
    returned,           \* history: the records every call returned, as returned
    ended,              \* history: how every call main made ended ("return",
                        \* or what was raised), in the order of the calls
    csvfile             \* save_to_csv: header and rows written, <<>> if none

vars == <<pdf_files, file_num, pdf_path, doc, page_num, i, pc, date_str,
          description_parts, transactions, raised, date_at, parts_at, prov,
          captured, event, all_transactions, returned, ended, csvfile>>

State ==
    [pdf_path |-> pdf_path, page_num |-> page_num, i |-> i, pc |-> pc, date_str |-> date_str,
     description_parts |-> description_parts, transactions |-> transactions,
     raised |-> raised, date_at |-> date_at, parts_at |-> parts_at,
     prov |-> prov, captured |-> captured, event |-> event]

\* extract_transaction_data(pdf_path) is entered for the file of that name:
\* transactions = [] before doc = fitz.open(pdf_path)
Enter(name) ==
    [pdf_path |-> name, page_num |-> 0, i |-> 0, pc |-> "scan",
     date_str |-> None, description_parts |-> <<>>, transactions |-> <<>>,
     raised |-> FALSE, date_at |-> 0, parts_at |-> <<>>, prov |-> <<>>,
     captured |-> {}, event |-> "start"]

\* the call for a file named statement.pdf
Start == Enter(source_file)

\* lines = text.split('\n') of the page being scanned
page_lines(d, s) == IF s.page_num = 0 THEN <<>> ELSE d[s.page_num]

\* for page_num, page in enumerate(doc): the next page, cursor at 0
next_page(d, s) ==
    [s EXCEPT !.page_num = s.page_num + 1, !.i = 0, !.event = "page"]

\* doc.close(); return transactions
return(d, s) == [s EXCEPT !.pc = "done", !.event = "return"]

\* mutant: the test lets the last line of the page through
has_next_line_off_by_one(ls, k) == k + 1 <= Len(ls)

\* i + 1 < len(lines), the test in front of both reads of lines[i + 1]
has_next_line(ls, k) == k + 1 < Len(ls)

\* mutant: the except clause gives up the records, return []
except_returns_nothing(s, e) ==
    [s EXCEPT !.pc = "done", !.raised = TRUE, !.event = e,
              !.transactions = <<>>, !.prov = <<>>]

\* except Exception as e: print(...), then return transactions
except(s, e) == [s EXCEPT !.pc = "done", !.raised = TRUE, !.event = e]

\* lines[k] with k >= len(lines) raises IndexError
index_error(s) == except(s, "IndexError")

\* fitz.open(pdf_path) raises
open_raises(d, s) == except(s, "open")

\* page.get_text() raises on the page after page_num
get_text_raises(d, s) == except(s, "get_text")

\* mutant: the day line of a split date is not consumed
find_date_short_step(ls, k) ==
    LET line == strip(ls[k + 1])
    IN  IF date_pattern(line) THEN <<line, 1>>
        ELSE IF /\ month_pattern(line) /\ k + 1 < Len(ls)
                /\ day_pattern(strip(ls[k + 2]))
        THEN <<line \o " " \o strip(ls[k + 2]), 1>>
        ELSE <<None, 1>>

\* mutant: a bare month is taken as the date without a look at the next line
find_date_bare_month(ls, k) ==
    LET line == strip(ls[k + 1])
    IN  IF date_pattern(line) \/ month_pattern(line) THEN <<line, 1>>
        ELSE <<None, 1>>

\* mutant: a bare month takes the line after it along, day or not
find_date_month_takes_two(ls, k) ==
    LET line == strip(ls[k + 1])
    IN  IF date_pattern(line) THEN <<line, 1>>
        ELSE IF month_pattern(line)
        THEN IF k + 1 < Len(ls) /\ day_pattern(strip(ls[k + 2]))
             THEN <<line \o " " \o strip(ls[k + 2]), 2>>
             ELSE <<None, 2>>
        ELSE <<None, 1>>

\* the date tests of the outer loop on lines[i]: <<date_str, lines consumed>>
find_date(ls, k) ==
    LET line == strip(ls[k + 1])
    IN  IF date_pattern(line) THEN <<line, 1>>
        ELSE IF month_pattern(line)
        THEN IF has_next_line(ls, k)
             THEN LET next_line == strip(ls[k + 2])
                  IN  IF day_pattern(next_line)
                      THEN <<line \o " " \o next_line, 2>>
                      ELSE <<None, 1>>
             ELSE <<None, 1>>
        ELSE <<None, 1>>

\* mutant: the fragments of the entry before stay in the list
start_collecting_keeps(parts) == parts

\* description_parts = [] once a date is found
start_collecting(parts) == <<>>

\* one iteration of the outer while loop
scan_line(d, s) ==
    LET ls    == page_lines(d, s)
        line  == strip(ls[s.i + 1])
        found == find_date(ls, s.i)
    IN  IF /\ ~ date_pattern(line) /\ month_pattern(line)
           /\ has_next_line(ls, s.i) /\ s.i + 1 >= Len(ls)
        THEN index_error(s)
        ELSE IF found[1] # None
        THEN [s EXCEPT !.date_str = found[1], !.i = s.i + found[2],
                       !.pc = "collect",
                       !.description_parts = start_collecting(@),
                       !.date_at = s.i,
                       !.parts_at = SubSeq(@, 1,
                           Len(start_collecting(s.description_parts))),
                       !.captured = @ \cup {<<s.page_num, s.i>>},
                       !.event = "date"]
        ELSE [s EXCEPT !.date_str = None, !.i = s.i + found[2],
                       !.event = "nodate"]

\* mutant: the next line is tried whenever the marker line has no amount
resolve_amount_peeks_any(ls, k) ==
    LET amount_str == strip(ls[k + 1])
        m2   == re_search(amount_str, TRUE)
        peek == m2 = <<>> /\ k + 1 < Len(ls)
        m3   == IF peek THEN re_match_number(strip(ls[k + 2])) ELSE m2
    IN  IF m3 = <<>> THEN <<>>
        ELSE <<m3[1], IF peek THEN k + 1 ELSE k>>

\* amount_match for the marker line lines[k]: <<>> if None, else
\* <<group(1), the cursor after the optional "skip the amount line">>
resolve_amount(ls, k) ==
    LET amount_str == strip(ls[k + 1])
        m1   == re_search(amount_str, TRUE)
        m2   == IF m1 = <<>> THEN re_search(amount_str, FALSE) ELSE m1
        peek == /\ m2 = <<>> /\ strip(amount_str) = Baht
                /\ has_next_line(ls, k)
        m3   == IF peek THEN re_match_number(strip(ls[k + 2])) ELSE m2
    IN  IF m3 = <<>> THEN <<>>
        ELSE <<m3[1], IF peek THEN k + 1 ELSE k>>

\* mutant: the test for the 'FOREIGN' lines is missing
is_fragment_no_foreign(next_line) ==
    /\ next_line # ""
    /\ ~ startswith(next_line, "Will appear")
    /\ next_line \notin {"CARD", "ACCOUNT_ENDING", "CARD_MEMBER"}
    /\ ~ startswith(next_line, "TOTRAKOOL")

\* mutant: a line that reads as a date or a month is left out
is_fragment_no_dates(next_line) ==
    /\ next_line # ""
    /\ ~ date_pattern(next_line) /\ ~ month_pattern(next_line)
    /\ ~ startswith(next_line, "Will appear")
    /\ ~ startswith(next_line, "FOREIGN")
    /\ next_line \notin {"CARD", "ACCOUNT_ENDING", "CARD_MEMBER"}
    /\ ~ startswith(next_line, "TOTRAKOOL")

\* the tests under which a line without the sign is appended to
\* description_parts
is_fragment(next_line) ==
    /\ next_line # ""
    /\ ~ startswith(next_line, "Will appear")
    /\ ~ startswith(next_line, "FOREIGN")
    /\ next_line \notin {"CARD", "ACCOUNT_ENDING", "CARD_MEMBER"}
    /\ ~ startswith(next_line, "TOTRAKOOL")

\* mutant: the record is put in front, transactions.insert(0, record)
append_front(list, record) == <<record>> \o list

\* transactions.append(record)
append(list, record) == Append(list, record)

\* if date_str and description and amount
complete(date, description, amount) ==
    date # None /\ description # "" /\ amount # ""

\* mutant: the break after the marker line is missing
found_amount_no_break(s, m) ==
    LET amount      == replace(m[1])
        description == build_description(s.description_parts)
        k           == location_index(s.description_parts, 2)
        out         == [s EXCEPT !.i = m[2] + 1, !.event = "drop"]
    IN  IF complete(s.date_str, description, amount)
        THEN IF float_raises(amount)
             THEN [out EXCEPT !.pc = "done", !.raised = TRUE,
                              !.event = "raise"]
             ELSE [out EXCEPT
                   !.event = "emit",
                   !.transactions = append(s.transactions,
                       [date |-> s.date_str, description |-> description,
                        amount_thb |-> float(amount),
                        source_file |-> s.pdf_path]),
                   !.prov = append(s.prov,
                       [page |-> s.page_num, date_at |-> s.date_at,
                        amount_at |-> m[2], amount |-> amount,
                        main_at |-> IF s.parts_at = <<>> THEN -1
                                    ELSE s.parts_at[1],
                        extra_at |-> IF k = 0 THEN -1 ELSE s.parts_at[k]])]
        ELSE out

\* the marker branch of the inner loop, amount_match being m
found_amount(s, m) ==
    LET amount      == replace(m[1])
        description == build_description(s.description_parts)
        k           == location_index(s.description_parts, 2)
        out         == [s EXCEPT !.i = m[2], !.pc = "scan", !.event = "drop"]
    IN  IF complete(s.date_str, description, amount)
        THEN IF float_raises(amount)
             THEN except(out, "raise")
             ELSE [out EXCEPT
                   !.event = "emit",
                   !.transactions = append(s.transactions,
                       [date |-> s.date_str, description |-> description,
                        amount_thb |-> float(amount),
                        source_file |-> s.pdf_path]),
                   !.prov = append(s.prov,
                       [page |-> s.page_num, date_at |-> s.date_at,
                        amount_at |-> m[2], amount |-> amount,
                        main_at |-> IF s.parts_at = <<>> THEN -1
                                    ELSE s.parts_at[1],
                        extra_at |-> IF k = 0 THEN -1 ELSE s.parts_at[k]])]
        ELSE out

\* mutant: the break is taken only when an amount was matched
no_amount_keeps_collecting(s) ==
    [s EXCEPT !.i = s.i + 1, !.event = "nomatch"]

\* if amount_match: is false: nothing is appended, break
no_amount(s) == [s EXCEPT !.pc = "scan", !.event = "nomatch"]

\* one iteration of the inner while loop on lines[i]
collect_line(d, s) ==
    LET ls        == page_lines(d, s)
        next_line == strip(ls[s.i + 1])
    IN  IF /\ next_line = Baht
           /\ has_next_line(ls, s.i) /\ s.i + 1 >= Len(ls)
        THEN index_error(s)
        ELSE IF contains(next_line, Baht)
        THEN LET m == resolve_amount(ls, s.i)
             IN  IF m # <<>> THEN found_amount(s, m) ELSE no_amount(s)
        ELSE IF is_fragment(next_line)
        THEN [s EXCEPT !.description_parts = Append(@, next_line),
                       !.parts_at = Append(@, s.i), !.i = s.i + 1,
                       !.event = "part"]
        ELSE [s EXCEPT !.i = s.i + 1, !.event = "skip"]

\* mutant: the pending date is emitted when the page ends
collect_end_partial(d, s) ==
    [s EXCEPT !.pc = "scan", !.event = "end",
              !.transactions = append(@,
                  [date |-> s.date_str,
                   description |-> build_description(s.description_parts),
                   amount_thb |-> float("0"), source_file |-> s.pdf_path]),
              !.prov = append(@,
                  [page |-> s.page_num, date_at |-> s.date_at,
                   amount_at |-> -1, amount |-> "", main_at |-> -1,
                   extra_at |-> -1])]

\* the inner while loop ends with the page exhausted
collect_end(d, s) == [s EXCEPT !.pc = "scan", !.event = "end"]

\* the statement the function executes next in state s
Step(d, s) ==
    LET n == Len(page_lines(d, s))
    IN  IF s.pc = "scan"
        THEN IF s.i < n THEN scan_line(d, s)
             ELSE IF s.page_num < Len(d) THEN next_page(d, s)
             ELSE return(d, s)
        ELSE IF s.pc = "collect"
        THEN IF s.i < n THEN collect_line(d, s) ELSE collect_end(d, s)
        ELSE s

RECURSIVE run(_, _)
run(d, s) == IF s.pc = "done" THEN s ELSE run(d, Step(d, s))

\* the list extract_transaction_data returns for the pages d
extract_transaction_data(d) == run(d, Start).transactions

\* ------------------------------------------------ parse_date_with_year
year == "2025"

\* %b: the number of the month, two digits
month_number(mon) ==
    CASE mon = "Jan" -> "01" [] mon = "Feb" -> "02" [] mon = "Mar" -> "03"
      [] mon = "Apr" -> "04" [] mon = "May" -> "05" [] mon = "Jun" -> "06"
      [] mon = "Jul" -> "07" [] mon = "Aug" -> "08" [] mon = "Sep" -> "09"
      [] mon = "Oct" -> "10" [] mon = "Nov" -> "11" [] mon = "Dec" -> "12"

\* the days of the month in 2025, which is not a leap year
days_in_month(mon) ==
    IF mon = "Feb" THEN 28
    ELSE IF mon \in {"Apr", "Jun", "Sep", "Nov"} THEN 30
    ELSE 31

\* %d of strftime: the day as two digits
two_digits(n) ==
    Char("0123456789", (n \div 10) + 1) \o Char("0123456789", (n % 10) + 1)

\* mutant: the day is not checked against the calendar
strptime_fails_never(ds) == FALSE

\* datetime.strptime raises ValueError: %d takes 1..9 and 01..31, and the
\* day must exist in the month
strptime_fails(ds) ==
    LET day == int(lstrip(SubSeq(ds, 4, Len(ds))))
    IN  day < 1 \/ day > days_in_month(SubSeq(ds, 1, 3))

\* strptime(f"{date_str} {year}", "%b %d %Y").strftime("%Y-%m-%d") of the
\* date_str ds, and ds itself when strptime raises
parse_date_with_year(ds) ==
    LET mon == SubSeq(ds, 1, 3)
        day == int(lstrip(SubSeq(ds, 4, Len(ds))))
    IN  IF strptime_fails(ds) THEN ds
        ELSE year \o "-" \o month_number(mon) \o "-" \o two_digits(day)

\* --------------------------------------------------------- save_to_csv
\* the characters of a date, in the order of their code points: \t (9),
\* \x0b, \f, \r (11..13), \x1c..\x1f (28..31), the space (32), - (45), the
\* digits (48..57), the letters (65..90, 97..122), U+0085 (133) and
\* U+00A0 (160)
CodePoints ==
    "\t\f\r -0123456789"
        \o "ABCDEFGHIJKLMNOPQRSTUVWXYZabcdefghijklmnopqrstuvwxyz"
        \o " "

ord(c) == CHOOSE k \in 1..Len(CodePoints) : Char(CodePoints, k) = c

\* a < b for two str
RECURSIVE str_lt(_, _)
str_lt(a, b) ==
    IF b = "" THEN FALSE
    ELSE IF a = "" THEN TRUE
    ELSE IF Head(a) = Head(b) THEN str_lt(Tail(a), Tail(b))
    ELSE ord(Char(a, 1)) < ord(Char(b, 1))

\* mutant: r is placed in front of the records with the same key
RECURSIVE insort_unstable(_, _)
insort_unstable(list, r) ==
    IF list = <<>> THEN <<r>>
    ELSE IF ~ str_lt(list[1].date, r.date) THEN <<r>> \o list
    ELSE <<list[1]>> \o insort_unstable(Tail(list), r)

\* record r placed behind every record of the sorted list whose key is
\* not greater: list.sort is stable
RECURSIVE insort(_, _)
insort(list, r) ==
    IF list = <<>> THEN <<r>>
    ELSE IF str_lt(r.date, list[1].date) THEN <<r>> \o list
    ELSE <<list[1]>> \o insort(Tail(list), r)

\* mutant: the list is written in the order it has
sort_nothing(list) == list

\* all_transactions.sort(key=lambda x: x['date'])
RECURSIVE sort(_)
sort(list) ==
    IF list = <<>> THEN <<>>
    ELSE insort(sort(SubSeq(list, 1, Len(list) - 1)), list[Len(list)])

\* writer.writerow({...}) for one transaction
writerow(transaction) ==
    [Date |-> transaction.date, Description |-> transaction.description,
     Amount_THB |-> transaction.amount_thb,
     Source_File |-> transaction.source_file]

\* writer.writeheader()
writeheader == <<"Date", "Description", "Amount (THB)", "Source File">>

\* ------------------------------------------------------------ inputs
\* the lines the pages are drawn from
Alphabet ==
    {"Jun 5", "Dec 31", "Jun", "5", "SHOP", "FOREIGN", "card", "$5", "$ 7.5",
     "$", "$,.", " "}

\* the sequences over S of length n, and of length at most n
Tuples(S, n) == [1..n -> S]
SeqUpTo(S, n) == UNION {Tuples(S, k) : k \in 0..n}

\* every way of cutting the lines ls into at most MaxPages non-empty pages
RECURSIVE Cuts(_, _)
Cuts(ls, n) ==
    {<<ls>>} \cup
    (IF n <= 1 THEN {}
     ELSE UNION {{<<SubSeq(ls, 1, k)>> \o rest :
                     rest \in Cuts(SubSeq(ls, k + 1, Len(ls)), n - 1)} :
                 k \in 1..(Len(ls) - 1)})

\* any short page
ShortDocs == {<<ls>> : ls \in SeqUpTo(Alphabet, MaxLines) \ {<<>>}}

\* the lines of a statement, cut into pages anywhere
PagedDocs ==
    UNION {Cuts(ls, MaxPages) :
              ls \in SeqUpTo({"Jun 5", "SHOP", "$5"}, MaxLines + 1) \ {<<>>}}

\* the parts of a statement entry: a date token, some lines, an amount
DateTokens == {<<"Jun 5">>, <<"Dec", "31">>}
PartLines ==
    {"SHOP", "BKK TH", "123", "TH", "CARD 1", "card fee", "Will appear"}
AmountLines ==
    {<<"$1,250.50">>, <<"$", "89.00">>, <<"$,.">>, <<"FOREIGN $5">>, <<>>}

\* one entry with up to MaxParts lines between the date and the amount
LongEntryDocs ==
    {<<<<"Jun 5", "SHOP">> \o ps \o <<"$5">> >> :
        ps \in SeqUpTo(PartLines, MaxParts - 1)}

Entries ==
    {dt \o ps \o am : dt \in DateTokens, am \in AmountLines,
                      ps \in {<<>>, <<"SHOP">>, <<"FOREIGN">>, <<"SHOP", "Dec 31">>}}

\* two entries, on one page or on two
TwoEntryDocs ==
    UNION {{<<e1 \o e2>>, <<e1, e2>>} : e1 \in Entries, e2 \in Entries}

\* a pending entry, a marker line and the line after it
MarkerLines ==
    {"$", " $ ", "x $", "$x", "$ 1,250", "THB $ 3", "$.5", "$,", "$5.", "$ x $2"}
AfterLines == {"89.00", "1,2", "12x", "Jun 5", "", "7", ".5", ",", "$3"}
MarkerDocs ==
    {<<<<"Jun 5", "SHOP", a>>>> : a \in MarkerLines} \cup
    {<<<<"Jun 5", "SHOP", a, b>>>> : a \in MarkerLines, b \in AfterLines}

\* an entry with the excluded phrases in several letter cases
CaseLines ==
    {"SHOP", "will appear", "Will appear", "Foreign fee", "FOREIGN fee",
     "card", "CARD", "Card 12", "totrakool x", "TOTRAKOOL X", "STATEMENT 1"}
CaseDocs ==
    {<<<<"Jun 5", a, b, "BKK TH", "$5">>>> : a \in CaseLines, b \in CaseLines}

\* two entries whose amounts are written with commas in several places
CommaTokens == {"1,250.00", "1250.00", "12,50.00", ",1250,.00", "125.00", "1,250."}
CommaDocs ==
    {<<<<"Jun 5", "SHOP", Baht \o a, "Dec 31", "CAFE", Baht, b>>>> :
        a \in CommaTokens, b \in CommaTokens}

\* an amount on a line of its own, a month and a day right after it
SplitDocs ==
    {<<<<"Jun 5", "SHOP", Baht, a, "Jun", b, "CAFE", "$8">>>> :
        a \in {"5", "12", "Dec"}, b \in {"5", "12", "Dec"}}

\* an entry with one whitespace character in its date token, around its
\* description and behind the sign
WhiteSpaceDocs ==
    {<<<<"Jun" \o w \o "5", w \o "SHOP" \o w, Baht \o w \o "5">>>> :
        w \in WhiteSpace}

\* a line that is one whitespace character, a day and an amount with one
\* behind them, a boilerplate line with one in front, a sign with one and
\* no number
WhiteSpaceLineDocs ==
    UNION {{<<<<"Jun 5", w, "$5">>>>,
            <<<<"Jun", "5" \o w, "SHOP", Baht, "7" \o w>>>>,
            <<<<"Jun 5", w \o "FOREIGN fee", "SHOP", Baht \o w \o ",.">>>>} :
           w \in WhiteSpace}

\* fragments, days and amounts written with the superscript digits
DigitLines == {"²³¹", "123", "12³", "²x³", "²"}
DigitDocs ==
    {<<<<"Jun 5", "SHOP", a, "BKK TH", "$5">>>> : a \in DigitLines} \cup
    {<<<<"Jun ²", "SHOP", "$5">>>>, <<<<"Jun", "²", "SHOP", "$5">>>>,
     <<<<"Jun 5", "SHOP", "$²">>>>, <<<<"Jun 5", "SHOP", Baht, "²">>>>,
     <<<<"Jun 5", "SHOP", "$1²">>>>}

\* fragments with letters beyond A..Z around the excluded words
LatinLines ==
    {"CÀRD x", "càrd x", "x FOREIGN É", "CAFÉ ÞÖ", "CARD ×÷", "ÀCCOUNT card"}
LatinDocs ==
    {<<<<"Jun 5", "SHOP", a, "BKK TH", "$5">>>> : a \in LatinLines}

\* amounts of more digits than a double holds
RoundingTokens ==
    {"0.10000000000000001", "123456789.123456789", "9007199254740993"}
RoundingDocs == {<<<<"Jun 5", "SHOP", Baht \o a>>>> : a \in RoundingTokens}

\* every date token of one line: a month, a space, one or two digits
DateLines ==
    {mon \o " " \o day :
        mon \in Months,
        day \in Digits \cup {a \o b : a \in Digits, b \in Digits}}

\* one entry under every date token
DateDocs == {<<<<d, "SHOP", "$5">>>> : d \in DateLines}

\* two entries of one page, in and out of the order of their dates
PairDates == {"Jun 5", "Dec 31", "Feb 29", "Jun 31", "Jan 1"}
DatePairDocs ==
    {<<<<d1, "SHOP", "$5", d2, "CAFE", "$ 7.5">>>> :
        d1 \in PairDates, d2 \in PairDates}

\* one entry whose month and day are apart by one whitespace character,
\* on a day of the calendar and on one strptime refuses
WhiteSpaceDateDocs ==
    {<<<<"Jun" \o w \o day, "SHOP", "$5">>>> :
        w \in WhiteSpace, day \in {"5", "31"}}

\* two entries of one page whose dates differ at the whitespace character
WhiteSpacePairDocs ==
    {<<<<"Jun" \o w1 \o "31", "SHOP", "$5", "Jun" \o w2 \o "31", "CAFE", "$6">>>> :
        w1 \in WhiteSpace, w2 \in WhiteSpace}

\* the statements main is run on alone
MainDocs ==
    {<<>>} \cup DateDocs \cup DatePairDocs \cup TwoEntryDocs
        \cup PagedDocs \cup WhiteSpacePairDocs

\* the statements main is run on together: entries of one day and of
\* different days, a day strptime refuses, a statement of two pages, a
\* statement without records,
\* one whose amount is not a number, one without pages
FileDocs ==
    {<<<<"Jun 5", "SHOP", "$5">>>>, <<<<"Jun 5", "CAFE", "$ 7.5">>>>,
     <<<<"Jan 1", "CAFE", "$6">>>>,
     <<<<"Feb 29", "SHOP", "$5">>, <<"Jan 1", "CAFE", "$6">>>>,
     <<<<"nothing here">>>>, <<<<"Jun 5", "SHOP", "$,.">>>>, <<>>}

\* sorted(pdf_files): the k-th file of the directory is named by the k-th
\* letter
file_name(k) == Char("abcdefghijklmnopqrstuvwxyz", k) \o ".pdf"

named(ds) == [k \in 1..Len(ds) |-> [name |-> file_name(k), pages |-> ds[k]]]

\* a statement that is in the directory twice: one entry, two entries on
\* one page or on two (with and without fragments, amounts that are split,
\* missing or not a number), and the lines with the other characters
TwiceEntries ==
    {dt \o ps \o am :
        dt \in DateTokens, ps \in {<<>>, <<"SHOP">>},
        am \in {<<"$", "89.00">>, <<"$,.">>, <<>>}}
TwiceDocs ==
    {<<e>> : e \in Entries} \cup SplitDocs \cup WhiteSpaceLineDocs
        \cup DigitDocs
        \cup UNION {{<<e1 \o e2>>, <<e1, e2>>} :
                        e1 \in TwiceEntries, e2 \in TwiceEntries}

\* the directories main is run on: no file, one file, up to MaxFiles files,
\* and one statement under two names
MainFiles ==
    {named(ds) : ds \in {<<>>} \cup Tuples(MainDocs, 1)}
        \cup UNION {{named(ds) : ds \in Tuples(FileDocs, n)} : n \in 2..MaxFiles}
        \cup {named(ds) : ds \in Tuples(WhiteSpaceDateDocs, 2)}
        \cup {named(<<d, d>>) : d \in TwiceDocs}

\* the documents scanned; <<>> is a document without pages
Docs ==
    {<<>>} \cup ShortDocs \cup PagedDocs \cup LongEntryDocs \cup TwoEntryDocs
        \cup MarkerDocs \cup CaseDocs \cup CommaDocs \cup SplitDocs
        \cup WhiteSpaceDocs \cup RoundingDocs \cup WhiteSpaceLineDocs
        \cup DigitDocs \cup LatinDocs

\* --------------------------------------------------------- state machine
lines == page_lines(doc, State)

Set(s) ==
    /\ page_num' = s.page_num
    /\ i' = s.i
    /\ pc' = s.pc
    /\ date_str' = s.date_str
    /\ description_parts' = s.description_parts
    /\ transactions' = s.transactions
    /\ raised' = s.raised
    /\ date_at' = s.date_at
    /\ parts_at' = s.parts_at
    /\ prov' = s.prov
    /\ captured' = s.captured
    /\ event' = s.event
    /\ pdf_path' = s.pdf_path
    /\ UNCHANGED <<pdf_files, file_num, doc, all_transactions, returned,
                   ended, csvfile>>

\* one call of extract_transaction_data, on a file named statement.pdf
Begin(D) ==
    /\ doc \in D
    /\ pdf_files = <<[name |-> source_file, pages |-> doc]>>
    /\ file_num = 1
    /\ pdf_path = Start.pdf_path
    /\ page_num = Start.page_num
    /\ i = Start.i
    /\ pc = Start.pc
    /\ date_str = Start.date_str
    /\ description_parts = Start.description_parts
    /\ transactions = Start.transactions
    /\ raised = Start.raised
    /\ date_at = Start.date_at
    /\ parts_at = Start.parts_at
    /\ prov = Start.prov
    /\ captured = Start.captured
    /\ event = Start.event
    /\ all_transactions = <<>>
    /\ returned = <<>>
    /\ ended = <<>>
    /\ csvfile = <<>>

Init == Begin(Docs)

NextPage ==
    /\ pc = "scan" /\ i >= Len(lines) /\ page_num < Len(doc)
    /\ Set(next_page(doc, State))

ScanLine ==
    /\ pc = "scan" /\ i < Len(lines)
    /\ Set(scan_line(doc, State))

CollectLine ==
    /\ pc = "collect" /\ i < Len(lines)
    /\ Set(collect_line(doc, State))

CollectEnd ==
    /\ pc = "collect" /\ i >= Len(lines)
    /\ Set(collect_end(doc, State))

Return ==
    /\ pc = "scan" /\ i >= Len(lines) /\ page_num >= Len(doc)
    /\ Set(return(doc, State))

Next == NextPage \/ ScanLine \/ CollectLine \/ CollectEnd \/ Return

Spec == Init /\ [][Next]_vars

\* ------------------------------------------------------------- main
\* pdf_files = get_pdf_files(invoices_dir); if not pdf_files: return
NoPdfFiles ==
    /\ pc = "main" /\ pdf_files = <<>>
    /\ pc' = "exit"
    /\ UNCHANGED <<pdf_files, file_num, pdf_path, doc, page_num, i, date_str,
                   description_parts, transactions, raised, date_at,
                   parts_at, prov, captured, event, all_transactions,
                   returned, ended, csvfile>>

\* for i, pdf_file in enumerate(pdf_files, 1): the first file, or the next
\* one after the records of the last were taken;
\* extract_transaction_data(pdf_file) is entered
NextFile ==
    /\ \/ pc = "main" /\ pdf_files # <<>>
       \/ pc = "extended" /\ file_num < Len(pdf_files)
    /\ file_num' = file_num + 1
    /\ doc' = pdf_files[file_num + 1].pages
    /\ LET s == Enter(pdf_files[file_num + 1].name)
       IN  /\ pdf_path' = s.pdf_path
           /\ page_num' = s.page_num
           /\ i' = s.i
           /\ pc' = s.pc
           /\ date_str' = s.date_str
           /\ description_parts' = s.description_parts
           /\ transactions' = s.transactions
           /\ raised' = s.raised
           /\ date_at' = s.date_at
           /\ parts_at' = s.parts_at
           /\ prov' = s.prov
           /\ captured' = s.captured
           /\ event' = s.event
    /\ UNCHANGED <<pdf_files, all_transactions, returned, ended, csvfile>>

\* transactions = extract_transaction_data(pdf_file);
\* if transactions: all_transactions.extend(transactions)
Extend ==
    /\ pc = "done"
    /\ pc' = "extended"
    /\ all_transactions' = all_transactions \o transactions
    /\ returned' = returned \o transactions
    /\ ended' = Append(ended, event)
    /\ UNCHANGED <<pdf_files, file_num, pdf_path, doc, page_num, i, date_str,
                   description_parts, transactions, raised, date_at,
                   parts_at, prov, captured, event, csvfile>>

\* for transaction in all_transactions:
\*     transaction['date'] = parse_date_with_year(transaction['date'], ...)
\* The records are the objects the calls returned (extend copies
\* references), so the list the last call returned changes with them.
Normalize ==
    /\ pc = "extended" /\ file_num >= Len(pdf_files)
    /\ pc' = "parsed"
    /\ all_transactions' =
           [n \in 1..Len(all_transactions) |->
               [all_transactions[n] EXCEPT
                   !.date = parse_date_with_year(@)]]
    /\ transactions' =
           [n \in 1..Len(transactions) |->
               [transactions[n] EXCEPT !.date = parse_date_with_year(@)]]
    /\ UNCHANGED <<pdf_files, file_num, pdf_path, doc, page_num, i, date_str,
                   description_parts, raised, date_at, parts_at, prov,
                   captured, event, returned, ended, csvfile>>

\* save_to_csv(all_transactions, output_path)
SaveToCsv ==
    /\ pc = "parsed"
    /\ pc' = "saved"
    /\ IF all_transactions = <<>>
       THEN UNCHANGED <<all_transactions, csvfile>>
       ELSE /\ all_transactions' = sort(all_transactions)
            /\ csvfile' = <<writeheader>> \o
                   [n \in 1..Len(all_transactions) |->
                       writerow(sort(all_transactions)[n])]
    /\ UNCHANGED <<pdf_files, file_num, pdf_path, doc, page_num, i, date_str,
                   description_parts, transactions, raised, date_at,
                   parts_at, prov, captured, event, returned, ended>>

\* ------------------------------------------------- errors of the library
\* doc = fitz.open(pdf_path) raises before any page is read
OpenRaises ==
    /\ pc = "scan" /\ event = "start"
    /\ Set(open_raises(doc, State))

\* text = page.get_text() raises on the next page
GetTextRaises ==
    /\ pc = "scan" /\ i >= Len(lines) /\ page_num < Len(doc)
    /\ Set(get_text_raises(doc, State))

ErrInit == Begin(PagedDocs \cup TwoEntryDocs)

ErrNext == Next \/ OpenRaises \/ GetTextRaises

SpecErr == ErrInit /\ [][ErrNext]_vars

\* main before get_pdf_files: no file is open, nothing is extracted
MainInit ==
    /\ pdf_files \in MainFiles
    /\ file_num = 0
    /\ pdf_path = None
    /\ doc = <<>>
    /\ page_num = Start.page_num
    /\ i = Start.i
    /\ pc = "main"
    /\ date_str = Start.date_str
    /\ description_parts = Start.description_parts
    /\ transactions = Start.transactions
    /\ raised = Start.raised
    /\ date_at = Start.date_at
    /\ parts_at = Start.parts_at
    /\ prov = Start.prov
    /\ captured = Start.captured
    /\ event = Start.event
    /\ all_transactions = <<>>
    /\ returned = <<>>
    /\ ended = <<>>
    /\ csvfile = <<>>

\* the except of extract_transaction_data is inside the loop of main:
\* a file the library fails on returns what it had and main goes on
MainNext ==
    \/ Next \/ OpenRaises \/ GetTextRaises
    \/ NoPdfFiles \/ NextFile \/ Extend \/ Normalize \/ SaveToCsv

SpecMain == MainInit /\ [][MainNext]_vars

\* ------------------------------------------- vocabulary of the claims
\* line k (0-based) of page p, trimmed
Line(p, k) == strip(doc[p][k + 1])

Pages == 1..Len(doc)
Positions(p) == 0..(Len(doc[p]) - 1)

IsDayText(l) == Len(l) \in {1, 2} /\ \A k \in 1..Len(l) : Char(l, k) \in Digits

\* 'Mon D': a month abbreviation, white space, a one- or two-digit day
IsDateText(l) ==
    \E n \in 1..2 :
        /\ Len(l) >= 4 + n
        /\ SubSeq(l, 1, 3) \in Months
        /\ \A k \in 4..(Len(l) - n) : Char(l, k) \in WhiteSpace
        /\ \A k \in (Len(l) - n + 1)..Len(l) : Char(l, k) \in Digits

SingleDateAt(p, k) == IsDateText(Line(p, k))
SplitDateAt(p, k) ==
    /\ Line(p, k) \in Months
    /\ k + 1 < Len(doc[p])
    /\ IsDayText(Line(p, k + 1))
DateTokenAt(p, k) == SingleDateAt(p, k) \/ SplitDateAt(p, k)
DateText(p, k) ==
    IF SingleDateAt(p, k) THEN Line(p, k)
    ELSE Line(p, k) \o " " \o Line(p, k + 1)
DateEnd(p, k) == IF SingleDateAt(p, k) THEN k ELSE k + 1

HasBaht(l) == \E k \in 1..Len(l) : Char(l, k) = Baht

\* blank, or on the exclusion list of the collection stage
IsSkippedText(l) ==
    \/ l = ""
    \/ \E w \in {"Will appear", "FOREIGN", "TOTRAKOOL"} :
          Len(l) >= Len(w) /\ SubSeq(l, 1, Len(w)) = w
    \/ l \in {"CARD", "ACCOUNT_ENDING", "CARD_MEMBER"}

\* line b holds the sign followed by a number that float() accepts
InlineAmountAt(p, b) ==
    /\ HasBaht(Line(p, b))
    /\ re_search(Line(p, b), TRUE) # <<>>
    /\ \E k \in 1..Len(re_search(Line(p, b), TRUE)[1]) :
          Char(re_search(Line(p, b), TRUE)[1], k) \in Digits
InlineAmount(p, b) == float(replace(re_search(Line(p, b), TRUE)[1]))

\* the lines strictly between the date token at a and line b
Between(p, a, b) == (DateEnd(p, a) + 1)..(b - 1)

\* the records emitted for the date token at a with the amount of line b
RecordsOf(p, a, b) ==
    {n \in 1..Len(transactions) :
        /\ prov[n].page = p /\ prov[n].date_at = a /\ prov[n].amount_at = b
        /\ transactions[n].date = DateText(p, a)
        /\ transactions[n].amount_thb = InlineAmount(p, b)}

\* ---------------------------------------------------------------- C1
\* a date token, then only boilerplate or blank lines, then a line with the
\* sign and a number
C1Case(p, a, b) ==
    /\ DateTokenAt(p, a)
    /\ b > DateEnd(p, a)
    /\ \A k \in Between(p, a, b) :
          IsSkippedText(Line(p, k)) /\ ~ HasBaht(Line(p, k))
    /\ InlineAmountAt(p, b)

\* C1: a date token followed, over boilerplate lines only, by a
\* line with the sign and a parseable number gives exactly one record with
\* that date and that amount (stated for the runs that end without an error)
C1_DateThenAmountOneRecord ==
    pc = "done" /\ ~ raised =>
        \A p \in Pages : \A a \in Positions(p) : \A b \in Positions(p) :
            C1Case(p, a, b) => Cardinality(RecordsOf(p, a, b)) = 1

\* ---------------------------------------------------------------- C2
\* the inner loop is at a marker line whose amount resolves to a number, and
\* no fragment has been collected
C2Case ==
    /\ pc = "collect" /\ i < Len(lines)
    /\ description_parts = <<>>
    /\ HasBaht(Line(page_num, i))
    /\ resolve_amount(lines, i) # <<>>
    /\ ~ float_raises(replace(resolve_amount(lines, i)[1]))

\* C2: with a date captured, an amount resolved and no fragment
\* collected, one record with the empty description is emitted
C2_EmptyDescriptionEmitted ==
    [][C2Case =>
         /\ Len(transactions') = Len(transactions) + 1
         /\ transactions'[Len(transactions')].description = ""
         /\ transactions'[Len(transactions')].date = date_str]_vars

\* ---------------------------------------------------------------- C3
\* the amount v was read at line b: from the marker line itself, or from the
\* bare number under a marker that stands alone
AmountTokenAt(p, b, v) ==
    \/ /\ HasBaht(Line(p, b))
       /\ re_search(Line(p, b), TRUE) # <<>>
       /\ v = float(replace(re_search(Line(p, b), TRUE)[1]))
    \/ /\ b >= 1 /\ Line(p, b - 1) = Baht
       /\ re_match_number(Line(p, b)) # <<>>
       /\ v = float(replace(re_match_number(Line(p, b))[1]))

\* C3: every record has the date of a date token of its page and the amount
\* of an amount token that comes after that date token; a date token with
\* no marker line after it on its page has no record
C3_NoPartialRecord ==
    /\ Len(prov) = Len(transactions)
    /\ \A n \in 1..Len(transactions) :
          LET p == prov[n].page
              a == prov[n].date_at
              b == prov[n].amount_at
          IN  /\ p \in Pages /\ a \in Positions(p) /\ b \in Positions(p)
              /\ DateTokenAt(p, a)
              /\ transactions[n].date = DateText(p, a)
              /\ b > DateEnd(p, a)
              /\ AmountTokenAt(p, b, transactions[n].amount_thb)
    /\ \A p \in Pages : \A a \in Positions(p) :
          /\ DateTokenAt(p, a)
          /\ \A k \in Positions(p) : k > DateEnd(p, a) => ~ HasBaht(Line(p, k))
          => ~ \E n \in 1..Len(prov) : prov[n].page = p /\ prov[n].date_at = a

\* a record was emitted, and a later captured date ran into the end of its
\* page and left no record
C3_Witness ==
    /\ pc = "done" /\ ~ raised
    /\ Len(transactions) >= 1
    /\ \E c \in captured :
          /\ \A k \in Positions(c[1]) :
                k > DateEnd(c[1], c[2]) => ~ HasBaht(Line(c[1], k))
          /\ ~ \E n \in 1..Len(prov) :
                  prov[n].page = c[1] /\ prov[n].date_at = c[2]

\* ---------------------------------------------------------------- C4
NoDateToken == \A p \in Pages : \A k \in Positions(p) : ~ DateTokenAt(p, k)

\* C4: a document without a date token gives no record
C4_NoDateNoRecord == NoDateToken => transactions = <<>>

\* a document without a date token but with an amount line was scanned through
C4_Witness ==
    /\ pc = "done" /\ NoDateToken /\ transactions = <<>>
    /\ \E p \in Pages : \E k \in Positions(p) : InlineAmountAt(p, k)
    /\ \E p \in Pages : \E k \in Positions(p) : Line(p, k) \in Months

\* ---------------------------------------------------------------- C5
\* the inner loop is at a marker line whose amount cannot be turned into a
\* number: no amount token, or a token without a digit
C5Case ==
    /\ pc = "collect" /\ i < Len(lines)
    /\ HasBaht(Line(page_num, i))
    /\ \/ resolve_amount(lines, i) = <<>>
       \/ float_raises(replace(resolve_amount(lines, i)[1]))

\* C5 as claimed: at a marker line whose amount is not a number only the
\* pending record is dropped, no error is raised, and the scan goes on in
\* scanning mode
C5_BadAmountOnlyDropsPending ==
    [][C5Case => transactions' = transactions /\ ~ raised' /\ pc' = "scan"]_vars

\* ---------------------------------------------------------------- C6
\* C6: the records are in the order of their date tokens, by page and by
\* line index
C6_OrderPreserved ==
    /\ \A n \in 1..Len(transactions) :
          /\ DateTokenAt(prov[n].page, prov[n].date_at)
          /\ transactions[n].date = DateText(prov[n].page, prov[n].date_at)
    /\ \A m \in 1..Len(transactions) : \A n \in 1..Len(transactions) :
          m < n =>
              \/ prov[m].page < prov[n].page
              \/ /\ prov[m].page = prov[n].page
                 /\ prov[m].date_at < prov[n].date_at

\* two records with different dates were emitted, the later date first
C6_Witness ==
    /\ pc = "done" /\ Len(transactions) = 2
    /\ transactions[1].date = "Dec 31" /\ transactions[2].date = "Jun 5"

\* ---------------------------------------------------------------- C7
\* the raw line is 'M D': month, one space, day
IsOneSpaceDate(l) ==
    /\ Len(l) \in {5, 6}
    /\ SubSeq(l, 1, 3) \in Months
    /\ Char(l, 4) = " "
    /\ IsDayText(SubSeq(l, 5, Len(l)))

\* the raw lines k and k + 1 (0-based) of page p are 'M' and 'D'
IsSplitDate(p, k) ==
    /\ k + 1 < Len(doc[p])
    /\ doc[p][k + 1] \in Months
    /\ IsDayText(doc[p][k + 2])

ReplaceLines(p, k, n, new) ==
    [doc EXCEPT ![p] = SubSeq(@, 1, k) \o new \o SubSeq(@, k + n + 1, Len(@))]

\* line k of page p, 'M D', replaced by the two lines 'M' and 'D'
SplitLine(p, k) ==
    LET l == doc[p][k + 1]
    IN  ReplaceLines(p, k, 1, <<SubSeq(l, 1, 3), SubSeq(l, 5, Len(l))>>)

\* lines k and k + 1 of page p, 'M' and 'D', replaced by the line 'M D'
MergeLines(p, k) ==
    ReplaceLines(p, k, 2, <<doc[p][k + 1] \o " " \o doc[p][k + 2]>>)

\* C7 as claimed: replacing any line 'M D' by the lines 'M' and 'D', or the
\* other way round, leaves the records unchanged
C7_SplitDateSameRecords ==
    event = "start" =>
        \A p \in Pages : \A k \in Positions(p) :
            /\ IsOneSpaceDate(doc[p][k + 1]) =>
                  extract_transaction_data(SplitLine(p, k))
                      = extract_transaction_data(doc)
            /\ IsSplitDate(p, k) =>
                  extract_transaction_data(MergeLines(p, k))
                      = extract_transaction_data(doc)

\* C7 amended: when the outer scan is at a line 'M D', or at the lines 'M'
\* and 'D', replacing the one by the other leaves the records unchanged, and
\* the date captured is 'M D'
C7_ScannedSplitDateSameRecords ==
    /\ pc = "scan" /\ i < Len(lines) /\ IsOneSpaceDate(lines[i + 1]) =>
          extract_transaction_data(SplitLine(page_num, i))
              = extract_transaction_data(doc)
    /\ pc = "scan" /\ i < Len(lines) /\ IsSplitDate(page_num, i) =>
          extract_transaction_data(MergeLines(page_num, i))
              = extract_transaction_data(doc)
    /\ event = "date" => date_str = DateText(page_num, date_at)

\* the outer scan is at the 'M' of a split date that ends in a record
C7_Witness ==
    /\ pc = "scan" /\ i < Len(lines) /\ IsSplitDate(page_num, i)
    /\ \E n \in 1..Len(run(doc, State).prov) :
          /\ run(doc, State).prov[n].page = page_num
          /\ run(doc, State).prov[n].date_at = i
          /\ run(doc, State).transactions[n].date = "Dec 31"

\* ---------------------------------------------------------------- C8
\* the exclusion list of the collection stage
IsCollectionBoiler(l) ==
    \/ \E w \in {"Will appear", "FOREIGN", "TOTRAKOOL"} :
          Len(l) >= Len(w) /\ SubSeq(l, 1, Len(w)) = w
    \/ l \in {"CARD", "ACCOUNT_ENDING", "CARD_MEMBER"}

HasWord(l, w) ==
    \E k \in 1..(Len(l) - Len(w) + 1) : SubSeq(l, k, k + Len(w) - 1) = w

\* the exclusion list of the assembly stage
IsAssemblyBoiler(l) ==
    \E w \in {"will appear", "statement", "foreign", "card", "account", "00001"} :
        HasWord(l, w)

\* C8 as claimed: neither the primary name nor the supplementary fragment of
\* a record is a line of the exclusion list of either stage
C8_NoBoilerplateInDescription ==
    \A n \in 1..Len(transactions) :
        \A k \in {prov[n].main_at, prov[n].extra_at} \ {-1} :
            /\ ~ IsCollectionBoiler(Line(prov[n].page, k))
            /\ ~ IsAssemblyBoiler(Line(prov[n].page, k))

\* C8 amended: neither the primary name nor the supplementary fragment is a
\* line of the collection-stage list, and the supplementary fragment is not a
\* line of the assembly-stage list; the description is made of these lines
C8_NoBoilerplateAmended ==
    \A n \in 1..Len(transactions) :
        LET p == prov[n].page
            a == prov[n].main_at
            b == prov[n].extra_at
        IN  /\ a \in Positions(p) /\ ~ IsCollectionBoiler(Line(p, a))
            /\ b # -1 =>
                  /\ b \in Positions(p) /\ b > a
                  /\ ~ IsCollectionBoiler(Line(p, b))
                  /\ ~ IsAssemblyBoiler(Line(p, b))
            /\ transactions[n].description =
                  IF b = -1 THEN Line(p, a)
                  ELSE Line(p, a) \o " " \o Line(p, b)

\* a record was emitted whose entry held lines of both lists after the
\* primary name, and a supplementary fragment was found behind them
C8_Witness ==
    /\ event = "emit"
    /\ LET r == prov[Len(prov)]
       IN  /\ r.extra_at > r.main_at + 2
           /\ \E k \in (r.main_at + 1)..(r.extra_at - 1) :
                 IsCollectionBoiler(Line(r.page, k))
           /\ \E k \in (r.main_at + 1)..(r.extra_at - 1) :
                 IsAssemblyBoiler(Line(r.page, k))

\* ---------------------------------------------------------------- C9
C9Case ==
    /\ pc = "collect" /\ i < Len(lines)
    /\ IsCollectionBoiler(Line(page_num, i))

C9Stays ==
    /\ pc' = "collect"
    /\ date_str' = date_str
    /\ description_parts' = description_parts

\* C9 as claimed: a boilerplate line met while a date is pending leaves the
\* parser collecting, with the date and the fragments unchanged, also when
\* the line contains the sign
C9_BoilerplateNeverEnds == [][C9Case => C9Stays]_vars

\* C9 amended: a boilerplate line without the sign met while a date is
\* pending leaves the parser collecting, with the date and the fragments
\* unchanged; a boilerplate line with the sign ends the collection
C9_BoilerplateWithoutSign ==
    [][/\ C9Case /\ ~ HasBaht(Line(page_num, i)) => C9Stays /\ i' = i + 1
       /\ C9Case /\ HasBaht(Line(page_num, i)) => pc' # "collect"]_vars

\* a boilerplate line has just been passed with a fragment pending
C9_Witness ==
    /\ event = "skip" /\ pc = "collect" /\ i >= 1
    /\ IsCollectionBoiler(Line(page_num, i - 1))
    /\ description_parts # <<>>

\* --------------------------------------------------------------- C10
\* every character of l is a digit: 0..9 or a superscript digit
AllDigits(l) ==
    /\ Len(l) > 0
    /\ \A k \in 1..Len(l) :
           Char(l, k) \in {"0", "1", "2", "3", "4", "5", "6", "7", "8", "9",
                           "²", "³", "¹"}

\* the fragments after the first that are not all digits, are longer than two
\* characters and are free of the boilerplate words (in any letter case)
Supplementary(f) ==
    {k \in 2..Len(f) :
        ~ AllDigits(f[k]) /\ Len(f[k]) > 2 /\ ~ IsAssemblyBoiler(lower(f[k]))}

ExpectedDescription(f) ==
    IF Supplementary(f) = {} THEN f[1]
    ELSE f[1] \o " " \o f[Min(Supplementary(f))]

\* C10: a record emitted with the fragments f1..fn collected has the
\* description f1, or 'f1 fk' for the first later fragment fk that is not all
\* digits, is longer than two characters and is not boilerplate
C10_DescriptionAssembly ==
    [][Len(transactions') > Len(transactions) =>
          /\ description_parts # <<>>
          /\ transactions'[Len(transactions')].description
                 = ExpectedDescription(description_parts)]_vars

\* a record was emitted from four fragments: the second did not pass, the
\* third was added and the fourth, which passes too, was left out
C10_Witness ==
    /\ event = "emit" /\ Len(description_parts) = 4
    /\ Supplementary(description_parts) = {3, 4}
    /\ transactions[Len(transactions)].description
           = description_parts[1] \o " " \o description_parts[3]

\* ------------------------------------------------------------------ C11
\* the locals an entry leaves behind, replaced by those of a fresh call
Fresh == [State EXCEPT !.date_str = None, !.description_parts = <<>>]

\* fitz.open or page.get_text raised: the call did not see all the lines
LibraryFailures == {"open", "get_text"}

\* the records the call for file number k returned, under the name of the
\* file being scanned now
ReturnedBy(k) ==
    LET SameFile(r) == r.source_file = pdf_files[k].name
        own == SelectSeq(returned, SameFile)
    IN  [n \in 1..Len(own) |-> [own[n] EXCEPT !.source_file = pdf_path]]

\* C11: the records depend on the lines only: at every iteration of the
\* outer loop, whatever date and fragments the entry or page before left
\* in the locals, the function returns what it returns with fresh locals;
\* and when main has called the function on a file with the same pages
\* before and the library failed in neither call, the second call returns
\* the records the first returned (but for the name of the file)
C11_NoStateSurvives ==
    /\ pc = "scan" /\ State # Fresh =>
           run(doc, State).transactions = run(doc, Fresh).transactions
    /\ pc = "done" /\ event \notin LibraryFailures =>
           \A k \in 1..(file_num - 1) :
               pdf_files[k].pages = doc /\ ended[k] \notin LibraryFailures
                   => transactions = ReturnedBy(k)

\* the second call on a statement of two records has returned, after a
\* first call on the same pages
C11_Witness ==
    /\ pc = "done" /\ file_num = 2 /\ pdf_files[1].pages = doc
    /\ ended[1] = "return" /\ event = "return"
    /\ Len(transactions) = 2 /\ Len(ReturnedBy(1)) = 2

\* ------------------------------------------------------------------ C12
\* the records of the first n pages, each page scanned as a document
RECURSIVE PageRecords(_)
PageRecords(n) ==
    IF n = 0 THEN <<>>
    ELSE PageRecords(n - 1) \o extract_transaction_data(<<doc[n]>>)

\* C12: the records of a document are the records of its pages, each page
\* scanned alone, concatenated in page order
C12_PagesConcatenate ==
    pc = "done" => transactions = PageRecords(Len(doc))

\* ------------------------------------------------------------------ C13
\* d has the form YYYY-MM-DD
IsIsoDate(d) ==
    /\ Len(d) = 10
    /\ \A k \in {1, 2, 3, 4, 6, 7, 9, 10} : Char(d, k) \in Digits
    /\ Char(d, 5) = "-" /\ Char(d, 8) = "-"

\* the calendar of 2025
MonthNames ==
    <<"Jan", "Feb", "Mar", "Apr", "May", "Jun",
      "Jul", "Aug", "Sep", "Oct", "Nov", "Dec">>
MonthLengths == <<31, 28, 31, 30, 31, 30, 31, 31, 30, 31, 30, 31>>
MonthOf(token) ==
    CHOOSE m \in 1..12 : MonthNames[m] = SubSeq(token, 1, 3)
DayOf(token) == int(strip(SubSeq(token, 4, Len(token))))
OnCalendar(token) ==
    DayOf(token) >= 1 /\ DayOf(token) <= MonthLengths[MonthOf(token)]

\* d is the date token written as a day of 2025
IsDayOf2025(d, token) ==
    /\ IsIsoDate(d)
    /\ int(SubSeq(d, 1, 4)) = 2025
    /\ int(SubSeq(d, 6, 7)) = MonthOf(token)
    /\ int(SubSeq(d, 9, 10)) = DayOf(token)

\* C13 as stated: after main's normalization every Date has the form
\* YYYY-MM-DD, whatever date token the parser accepted
C13_EveryDateNormalized ==
    pc \in {"parsed", "saved"} =>
        \A n \in 1..Len(all_transactions) :
            IsIsoDate(all_transactions[n].date)

\* C13 amended: after main's normalization the Date of a record is the
\* YYYY-MM-DD form of its date token when the token names a day of 2025;
\* the Date of any other token (day 0, day 31 of a 30-day month, Feb 29)
\* is the token itself, and so are the Dates written to the CSV file
C13_CalendarDatesNormalized ==
    /\ pc = "parsed" =>
           /\ Len(all_transactions) = Len(returned)
           /\ \A n \in 1..Len(returned) :
                  LET token == returned[n].date
                      d     == all_transactions[n].date
                  IN  IF OnCalendar(token) THEN IsDayOf2025(d, token)
                      ELSE d = token
    /\ pc = "saved" =>
           \A n \in 2..Len(csvfile) :
               \E k \in 1..Len(returned) :
                   LET token == returned[k].date
                   IN  IF OnCalendar(token)
                       THEN IsDayOf2025(csvfile[n].Date, token)
                       ELSE csvfile[n].Date = token

\* a file with a Date that was normalized and one that was not is written
C13_Witness ==
    /\ pc = "saved"
    /\ \E n, k \in 2..Len(csvfile) :
           IsIsoDate(csvfile[n].Date) /\ ~ IsIsoDate(csvfile[k].Date)

\* ------------------------------------------------------------------ C14
IsPrefix(a, b) == Len(a) <= Len(b) /\ SubSeq(b, 1, Len(a)) = a

\* the two lists hold the same records, each as often
SameRecords(a, b) ==
    /\ Len(a) = Len(b)
    /\ \A n \in 1..Len(a) :
           Cardinality({k \in 1..Len(a) : a[k] = a[n]}) =
           Cardinality({k \in 1..Len(b) : b[k] = a[n]})

\* the Dates of the list do not decrease
DatesAscend(a) ==
    \A n, k \in 1..Len(a) : n < k => ~ str_lt(a[k].date, a[n].date)

\* r is the record q with another Date, or q itself
DateReplaced(q, r) == r = [q EXCEPT !.date = r.date]

\* C14 as stated: no step changes a field or the position of a record
\* that was emitted, in the scan, the date normalization or the writing:
\* the list being built, the list a call returned and main's list of all
\* records only ever grow at the end
C14_RecordsNeverChange ==
    [][/\ pc \in {"scan", "collect"} => IsPrefix(transactions, transactions')
       /\ pc \in {"done", "extended", "parsed"} /\ pc' # "scan" =>
              transactions' = transactions
       /\ IsPrefix(all_transactions, all_transactions')
      ]_vars

\* C14 amended: during the scan the records emitted are never changed and
\* are a prefix of the result (of what the scan returns when the library
\* does not fail, too), and main appends the result to its list;
\* main then replaces the Date of every record and no other field, in its
\* list and so in the list the last call returned, and save_to_csv puts
\* the records of main's list in the order of their Dates, whatever order
\* they were emitted in
C14_RecordsChangeOnlyInMain ==
    [][/\ pc \in {"scan", "collect"} =>
              /\ IsPrefix(transactions, transactions')
              /\ IsPrefix(transactions',
                          run(doc, Enter(pdf_path)).transactions)
              /\ all_transactions' = all_transactions
       /\ pc = "done" =>
              /\ transactions' = transactions
              /\ all_transactions' = all_transactions \o transactions
       /\ pc = "extended" /\ pc' = "scan" =>
              all_transactions' = all_transactions
       /\ pc = "extended" /\ pc' = "parsed" =>
              /\ Len(all_transactions') = Len(all_transactions)
              /\ \A n \in 1..Len(all_transactions) :
                     DateReplaced(all_transactions[n], all_transactions'[n])
              /\ Len(transactions') = Len(transactions)
              /\ \A n \in 1..Len(transactions) :
                     /\ DateReplaced(transactions[n], transactions'[n])
                     /\ transactions'[n] =
                            all_transactions'[Len(all_transactions)
                                              - Len(transactions) + n]
       /\ pc = "parsed" =>
              /\ transactions' = transactions
              /\ SameRecords(all_transactions, all_transactions')
              /\ DatesAscend(all_transactions')
      ]_vars

\* a record emitted first is written with another Date and in second
\* place, and the list the call returned holds the new Date
C14_Witness ==
    /\ pc = "saved" /\ Len(returned) = 2
    /\ returned[1].description # returned[2].description
    /\ all_transactions[2].description = returned[1].description
    /\ all_transactions[2].date # returned[1].date
    /\ transactions # <<>>
    /\ transactions[1].date # returned[Len(returned) - Len(transactions) + 1].date

\* ------------------------------------------------------------------ C15
\* the number written behind the sign on line l, <<>> if there is none
InlineToken(l) == re_search(l, TRUE)

\* l is a bare numeric token and nothing else
IsBareNumber(l) == re_match_number(l) # <<>>

\* the amount token of the marker line k of page p and the line it is
\* on, <<>> if there is none
AmountToken(p, k) ==
    IF InlineToken(Line(p, k)) # <<>> THEN <<InlineToken(Line(p, k))[1], k>>
    ELSE IF /\ Line(p, k) = Baht
            /\ k + 1 \in Positions(p)
            /\ IsBareNumber(Line(p, k + 1))
    THEN <<Line(p, k + 1), k + 1>>
    ELSE <<>>

\* C15: at the first marker line after a pending date, an amount written
\* on that line is taken and the next line is not consumed; failing that,
\* the next line is taken, and consumed, only when the marker line is the
\* sign alone and the next line is a bare numeric token; otherwise no
\* amount is resolved
C15_AmountResolutionOrder ==
    [][pc = "collect" /\ i < Len(lines) /\ HasBaht(Line(page_num, i)) =>
          LET tok == AmountToken(page_num, i)
          IN  IF tok = <<>>
              THEN event' = "nomatch" /\ i' = i
                   /\ transactions' = transactions
              ELSE /\ event' \in {"emit", "drop", "raise"}
                   /\ i' = tok[2]
                   /\ event' = "emit" =>
                          /\ transactions'[Len(transactions')].amount_thb =
                                 float(replace(tok[1]))
                          /\ prov'[Len(prov')].amount_at = tok[2]
      ]_vars

\* a record whose amount is the bare number on the line after the sign,
\* and the scan has gone on from that line
C15_Witness ==
    /\ event = "nodate" /\ prov # <<>>
    /\ LET r == prov[Len(prov)]
       IN  /\ r.page = page_num /\ r.amount_at = i - 1 /\ i >= 2
           /\ Line(page_num, i - 2) = Baht
           /\ r.amount = replace(Line(page_num, i - 1))

\* ------------------------------------------------------------------ C16
\* the inner loop is on a marker line whose amount makes a record
C16Case ==
    /\ pc = "collect" /\ i < Len(lines) /\ HasBaht(Line(page_num, i))
    /\ AmountToken(page_num, i) # <<>>
    /\ event' = "emit"

\* C16: once the amount of a record is resolved, the outer scan
\* goes on at the line after the line the amount was taken from
C16_ResumesAfterAmountLine ==
    [][C16Case => pc' = "scan" /\ i' = AmountToken(page_num, i)[2] + 1]_vars

\* ------------------------------------------------------------------ C17
\* the inner loop is on a marker line that resolves no amount
C17Case ==
    /\ pc = "collect" /\ i < Len(lines) /\ HasBaht(Line(page_num, i))
    /\ AmountToken(page_num, i) = <<>>

\* C17: a marker line without an amount ends the pending entry: nothing
\* is emitted and the parser is back in the outer scan, which passes the
\* marker line and examines the line after it as a date start, so that a
\* date token there begins an entry with no fragment of the old one
C17_MarkerWithoutAmount ==
    [][/\ C17Case =>
              /\ pc' = "scan" /\ event' = "nomatch" /\ i' = i
              /\ transactions' = transactions
       /\ pc = "scan" /\ event = "nomatch" =>
              /\ pc' = "scan" /\ i' = i + 1
              /\ transactions' = transactions
       /\ /\ pc = "scan" /\ i >= 1 /\ i < Len(lines)
          /\ HasBaht(Line(page_num, i - 1))
          /\ AmountToken(page_num, i - 1) = <<>>
          /\ DateTokenAt(page_num, i)
          => /\ pc' = "collect" /\ date_at' = i
             /\ date_str' = DateText(page_num, i)
             /\ description_parts' = <<>>
             /\ transactions' = transactions
      ]_vars

\* a date token right after a marker line without an amount was captured,
\* and the entry the marker line ended had a fragment and gave no record
C17_Witness ==
    /\ pc = "collect" /\ event = "date" /\ date_at >= 3
    /\ HasBaht(Line(page_num, date_at - 1))
    /\ AmountToken(page_num, date_at - 1) = <<>>
    /\ ~ HasBaht(Line(page_num, date_at - 2))
    /\ ~ IsCollectionBoiler(Line(page_num, date_at - 2))
    /\ \E k \in 0..(date_at - 3) : <<page_num, k>> \in captured
    /\ transactions = <<>>

\* ------------------------------------------------------------------ C18
\* the outer scan is on a line that is a bare month
C18Case == pc = "scan" /\ i < Len(lines) /\ Line(page_num, i) \in Months

\* C18: a bare month followed by a bare day of one or two digits is a
\* date that consumes exactly the two lines; a bare month that is the
\* last line, or is followed by anything else, captures no date, emits
\* nothing and moves the cursor by one, so that the line after it is
\* examined as a date start itself
C18_BareMonth ==
    [][/\ C18Case =>
              IF i + 1 < Len(lines) /\ IsDayText(Line(page_num, i + 1))
              THEN /\ pc' = "collect" /\ i' = i + 2
                   /\ date_str' =
                          Line(page_num, i) \o " " \o Line(page_num, i + 1)
                   /\ transactions' = transactions
              ELSE /\ pc' = "scan" /\ i' = i + 1
                   /\ date_str' = None /\ captured' = captured
                   /\ transactions' = transactions
       /\ /\ pc = "scan" /\ i >= 1 /\ i < Len(lines)
          /\ Line(page_num, i - 1) \in Months /\ event = "nodate"
          /\ DateTokenAt(page_num, i)
          => pc' = "collect" /\ date_at' = i
             /\ date_str' = DateText(page_num, i)
      ]_vars

\* the date token right after a bare month without a day was captured
C18_Witness ==
    /\ pc = "collect" /\ event = "date" /\ date_at >= 1
    /\ Line(page_num, date_at - 1) \in Months
    /\ <<page_num, date_at - 1>> \notin captured

\* ------------------------------------------------------------------ C19
\* C19: the scan of a page is one forward pass: the cursor never goes
\* back, every iteration of the outer loop moves it by at least one, also
\* the iteration after an inner loop that stopped on a marker line, and
\* the scan ends with the cursor at or beyond the end of the page
C19_SingleForwardPass ==
    [][/\ page_num' = page_num => i' >= i
       /\ pc = "scan" /\ i < Len(lines) => i' >= i + 1
       /\ pc' = "done" /\ page_num' >= 1 => i' >= Len(doc[page_num'])
      ]_vars

\* ------------------------------------------------------------------ C20
\* l is an excluded line of the collection stage in all but letter case
CollectionVariant(l) ==
    /\ ~ IsCollectionBoiler(l)
    /\ \/ \E w \in {"will appear", "foreign", "totrakool"} :
              Len(l) >= Len(w) /\ lower(SubSeq(l, 1, Len(w))) = w
       \/ lower(l) \in {"card", "account_ending", "card_member"}

\* l holds an excluded word of the assembly stage in another letter case
AssemblyVariant(l) == IsAssemblyBoiler(lower(l)) /\ ~ IsAssemblyBoiler(l)

\* the later fragments that pass when the words are matched as written
SupplementaryAsWritten(f) ==
    {k \in 2..Len(f) :
        ~ AllDigits(f[k]) /\ Len(f[k]) > 2 /\ ~ IsAssemblyBoiler(f[k])}

\* the inner loop is on a line without the sign that is not blank and not
\* on the exclusion list of the collection stage as written
C20Collects ==
    /\ pc = "collect" /\ i < Len(lines)
    /\ ~ HasBaht(Line(page_num, i)) /\ Line(page_num, i) # ""
    /\ ~ IsCollectionBoiler(Line(page_num, i))

\* C20 as stated: the excluded phrases are matched as written at both
\* stages: a line or fragment that differs from them in letter case is
\* collected, and is chosen as supplementary fragment, like any other
C20_CaseSensitiveEverywhere ==
    [][/\ C20Collects =>
              description_parts' =
                  Append(description_parts, Line(page_num, i))
       /\ Len(transactions') > Len(transactions) =>
              transactions'[Len(transactions')].description =
                  IF SupplementaryAsWritten(description_parts) = {}
                  THEN description_parts[1]
                  ELSE description_parts[1] \o " " \o
                       description_parts[
                           Min(SupplementaryAsWritten(description_parts))]
      ]_vars

\* C20 amended: the collection stage matches its phrases as written, so a
\* line that differs from them in letter case is collected as a fragment;
\* the assembly stage matches its words in any letter case, so a fragment
\* holding one of them, however written, is never the supplementary one
C20_CaseSensitiveCollectionOnly ==
    [][/\ C20Collects =>
              description_parts' =
                  Append(description_parts, Line(page_num, i))
       /\ Len(transactions') > Len(transactions) =>
              \A k \in 2..Len(description_parts) :
                  IsAssemblyBoiler(lower(description_parts[k])) =>
                      transactions'[Len(transactions')].description #
                          description_parts[1] \o " " \o description_parts[k]
      ]_vars

\* a line that differs from the excluded phrases in letter case only was
\* collected as the second fragment and passed over for the third
C20_Witness ==
    /\ event = "emit" /\ Len(description_parts) = 3
    /\ CollectionVariant(description_parts[2])
    /\ AssemblyVariant(description_parts[2])
    /\ Len(description_parts[2]) > 2
    /\ transactions[Len(transactions)].description =
           description_parts[1] \o " " \o description_parts[3]

\* ------------------------------------------------------------------ C21
\* the characters of t that are not commas, in their order
RECURSIVE WithoutCommas(_)
WithoutCommas(t) ==
    IF t = "" THEN ""
    ELSE IF Head(t) = "," THEN WithoutCommas(Tail(t))
    ELSE SubSeq(t, 1, 1) \o WithoutCommas(Tail(t))

\* a is digits with at most one point and no comma
IsPlainDecimal(a) ==
    /\ \A k \in 1..Len(a) : Char(a, k) \in Digits \cup {"."}
    /\ Cardinality({k \in 1..Len(a) : Char(a, k) = "."}) <= 1

\* the token record n took its amount from, as it is written on the page
TokenOf(n) ==
    LET p == prov[n].page
        b == prov[n].amount_at
    IN  IF HasBaht(Line(p, b)) THEN AmountToken(p, b)[1]
        ELSE AmountToken(p, b - 1)[1]

\* the inner loop is on a marker line with an amount token that has a
\* digit, and a fragment was collected
C21Case ==
    /\ pc = "collect" /\ i < Len(lines) /\ description_parts # <<>>
    /\ HasBaht(Line(page_num, i)) /\ AmountToken(page_num, i) # <<>>
    /\ \E k \in 1..Len(AmountToken(page_num, i)[1]) :
           Char(AmountToken(page_num, i)[1], k) \in Digits

\* C21: the amount of every record is the token matched on the page with
\* every comma removed: digits with the point as only separator, and two
\* tokens that differ in their commas only give the same amount; every
\* token with a digit gives a record, commas or not
C21_CommasRemoved ==
    /\ \A n \in 1..Len(transactions) :
           /\ IsPlainDecimal(prov[n].amount)
           /\ prov[n].amount = WithoutCommas(TokenOf(n))
           /\ transactions[n].amount_thb = float(prov[n].amount)
    /\ \A n, k \in 1..Len(transactions) :
           WithoutCommas(TokenOf(n)) = WithoutCommas(TokenOf(k)) =>
               transactions[n].amount_thb = transactions[k].amount_thb
    /\ C21Case => Len(Step(doc, State).transactions) > Len(transactions)

\* two records with the same amount from tokens written differently
C21_Witness ==
    /\ Len(transactions) = 2
    /\ TokenOf(1) # TokenOf(2)
    /\ HasWord(TokenOf(1), ",")
    /\ transactions[1].amount_thb = transactions[2].amount_thb

\* ------------------------------------------------------------------ C22
\* the inner loop is on a line that reads as a date, a month or a day
C22Case ==
    /\ pc = "collect" /\ i < Len(lines)
    /\ \/ IsDateText(Line(page_num, i))
       \/ Line(page_num, i) \in Months
       \/ IsDayText(Line(page_num, i))

\* C22: while a date is pending, a line that is a date, or the month or
\* day of one, starts no entry: it is appended as a fragment and the
\* pending date stays; the record a marker line then gives carries the
\* date of the token that was captured, and no date token between that
\* token and the marker line was captured
C22_DateWhileCollecting ==
    [][/\ C22Case =>
              /\ pc' = "collect" /\ i' = i + 1
              /\ date_str' = date_str /\ date_at' = date_at
              /\ captured' = captured
              /\ description_parts' =
                     Append(description_parts, Line(page_num, i))
              /\ transactions' = transactions
       /\ pc = "collect" /\ Len(transactions') > Len(transactions) =>
              /\ DateTokenAt(page_num, date_at)
              /\ transactions'[Len(transactions')].date =
                     DateText(page_num, date_at)
              /\ \A k \in (date_at + 1)..i : <<page_num, k>> \notin captured'
      ]_vars

\* a record with the date of the first of two date tokens; the second
\* token is its description
C22_Witness ==
    /\ event = "emit" /\ description_parts # <<>>
    /\ IsDateText(description_parts[1])
    /\ description_parts[1] # date_str
    /\ transactions[Len(transactions)].date = date_str
    /\ transactions[Len(transactions)].description = description_parts[1]

\* ------------------------------------------------------------------ C23
\* the records emitted so far from page p
RecordsOn(p) == {n \in 1..Len(prov) : prov[n].page = p}

\* the lines of page p that hold the sign, and its date tokens
MarkerLinesOn(p) == {k \in Positions(p) : HasBaht(Line(p, k))}
DateTokensOn(p) == {k \in Positions(p) : DateTokenAt(p, k)}

\* C23: a page never has more records than lines with the sign, nor more
\* records than date tokens; a marker line met by the outer scan, with no
\* date pending, gives nothing
C23_RecordCountBounded ==
    [][/\ Len(prov') = Len(transactions')
       /\ \A p \in Pages :
              /\ Cardinality(RecordsOn(p)') <= Cardinality(MarkerLinesOn(p))
              /\ Cardinality(RecordsOn(p)') <= Cardinality(DateTokensOn(p))
       /\ pc = "scan" /\ i < Len(lines) /\ HasBaht(Line(page_num, i)) =>
              pc' = "scan" /\ transactions' = transactions
      ]_vars

\* a page scanned to its end with a record, and with more marker lines
\* and more date tokens than records
C23_Witness ==
    /\ pc = "done" /\ ~ raised
    /\ \E p \in Pages :
           /\ RecordsOn(p) # {}
           /\ Cardinality(RecordsOn(p)) < Cardinality(MarkerLinesOn(p))
           /\ Cardinality(RecordsOn(p)) < Cardinality(DateTokensOn(p))

\* ------------------------------------------------------------------ C24
\* the lines record n was made from: from its date token, over the
\* fragments collected and the marker line, to the line of its amount
LinesOf(n) == (prov[n].date_at)..(prov[n].amount_at)

\* line k of page p was taken as a date, or as the day of a split date
TakenAsDate(p, k) ==
    \/ <<p, k>> \in captured
    \/ k >= 1 /\ <<p, k - 1>> \in captured /\ ~ SingleDateAt(p, k - 1)

\* C24: no line is part of two records, and the line a record took its
\* amount from is never taken as a date or as the day of a split date
C24_LineInOneRecord ==
    /\ Len(prov) = Len(transactions)
    /\ \A n, k \in 1..Len(prov) :
           n # k /\ prov[n].page = prov[k].page =>
               LinesOf(n) \cap LinesOf(k) = {}
    /\ \A n \in 1..Len(prov) :
           ~ TakenAsDate(prov[n].page, prov[n].amount_at)

\* a bare number was the amount of one record, and the month and day on
\* the two lines after it are the date of the next
C24_Witness ==
    /\ Len(prov) = 2 /\ prov[1].page = prov[2].page
    /\ IsDayText(Line(prov[1].page, prov[1].amount_at))
    /\ prov[2].date_at = prov[1].amount_at + 1
    /\ SplitDateAt(prov[2].page, prov[2].date_at)

\* ------------------------------------------------------------------ C25
\* C25: the cursor is never negative and never beyond the end of the
\* page, and no read of lines[i] or lines[i + 1] is out of range: the
\* function never ends on an IndexError
C25_IndexSafety ==
    /\ i >= 0 /\ i <= Len(lines)
    /\ event # "IndexError"

\* a month and a day on the last two lines of a page were taken as a
\* date: the cursor is at the end of the page
C25_Witness ==
    /\ pc = "collect" /\ event = "date" /\ i = Len(lines) /\ i >= 2
    /\ Line(page_num, i - 2) \in Months /\ IsDayText(Line(page_num, i - 1))

\* ------------------------------------------------------------------ C26
\* the inner loop is on a marker line whose amount token, commas removed,
\* is a point without a digit, and a fragment was collected
C26Conversion ==
    /\ pc = "collect" /\ i < Len(lines) /\ description_parts # <<>>
    /\ HasBaht(Line(page_num, i)) /\ AmountToken(page_num, i) # <<>>
    /\ WithoutCommas(AmountToken(page_num, i)[1]) # ""
    /\ ~ \E k \in 1..Len(AmountToken(page_num, i)[1]) :
             Char(AmountToken(page_num, i)[1], k) \in Digits

\* C26: an error of fitz.open, of get_text on some page or of float on an
\* amount ends the call without propagating: the function returns the
\* records emitted before the error, all of them and no other, whatever
\* is left of the page and of the pages after it
C26_ErrorKeepsRecords ==
    [][/\ C26Conversion \/ event' \in {"open", "get_text"} =>
              /\ raised' /\ pc' = "done"
              /\ transactions' = transactions
       /\ raised' => pc' = "done"
       /\ pc = "done" => transactions' = transactions
      ]_vars

\* get_text raised on the second page: the record of the first page is
\* returned
C26_Witness ==
    /\ pc = "done" /\ raised /\ event = "get_text"
    /\ page_num = 1 /\ Len(doc) = 2
    /\ Len(transactions) = 1 /\ prov[1].page = 1
    /\ extract_transaction_data(doc) # transactions

\* ------------------------------------------------------------------ C27
\* the day of the year of a Date of the form YYYY-MM-DD, as month and day
MonthDay(d) == 100 * int(SubSeq(d, 6, 7)) + int(SubSeq(d, 9, 10))

\* the rows written under the header
Rows == SubSeq(csvfile, 2, Len(csvfile))

\* f places the records of list a in list b, those of equal Date in the
\* order they have in a
StablePlacing(f, a, b) ==
    /\ \A n, k \in 1..Len(a) : n # k => f[n] # f[k]
    /\ \A n \in 1..Len(a) : b[f[n]] = a[n]
    /\ \A n, k \in 1..Len(a) :
           n < k /\ a[n].date = a[k].date => f[n] < f[k]

\* C27: the dates are normalized before save_to_csv sorts; the file has
\* one row for every record extracted from any file, the Dates of the
\* rows do not decrease, rows of equal Date are in the order of
\* extraction, rows whose Dates all have the form YYYY-MM-DD are in the
\* order of the calendar, and without records no file is written
C27_CsvOrdering ==
    [][/\ csvfile' # csvfile => pc = "parsed" /\ csvfile = <<>>
       /\ pc = "extended" => csvfile' = <<>>
       /\ pc = "parsed" =>
              /\ Len(all_transactions) = Len(returned)
              /\ \A n \in 1..Len(returned) :
                     all_transactions[n] =
                         [returned[n] EXCEPT
                             !.date = parse_date_with_year(@)]
              /\ returned = <<>> => csvfile' = <<>>
              /\ returned # <<>> =>
                     /\ Len(csvfile') = Len(returned) + 1
                     /\ \E f \in [1..Len(all_transactions) ->
                                      1..Len(all_transactions)] :
                            StablePlacing(f, all_transactions,
                                          all_transactions')
                     /\ \A n \in 1..Len(all_transactions') :
                            /\ Rows'[n].Date = all_transactions'[n].date
                            /\ Rows'[n].Description =
                                   all_transactions'[n].description
                            /\ Rows'[n].Amount_THB =
                                   all_transactions'[n].amount_thb
                            /\ Rows'[n].Source_File =
                                   all_transactions'[n].source_file
                     /\ \A n, k \in 1..Len(Rows') :
                            n < k => ~ str_lt(Rows'[k].Date, Rows'[n].Date)
                     /\ (\A n \in 1..Len(Rows') : IsIsoDate(Rows'[n].Date))
                        => \A n, k \in 1..Len(Rows') :
                               n < k => MonthDay(Rows'[n].Date)
                                           <= MonthDay(Rows'[k].Date)
      ]_vars

\* two records of one Date, from two files, were written in the order of
\* extraction
C27_Witness ==
    /\ pc = "saved" /\ Len(csvfile) = 3
    /\ csvfile[2].Date = csvfile[3].Date
    /\ csvfile[2].Source_File # csvfile[3].Source_File
    /\ csvfile[2].Description = returned[1].description
    /\ csvfile[3].Description = returned[2].description
    /\ returned[1].description # returned[2].description

====
